---- MODULE Spec2Model ----
(***************************************************************************)
(* Vision-board server (src/server.js): one JSON document file, one upload *)
(* directory, four HTTP handlers.  The handlers use only synchronous file  *)
(* calls, so each handler is one step of the single-threaded event loop.   *)
(***************************************************************************)
EXTENDS Integers, Sequences, FiniteSets, TLC

VARIABLES
  dataFile,   \* raw state of DATA_FILE: missing / empty / corrupt / JSON text
  files,      \* paths of the regular files on disk other than DATA_FILE
  now,        \* the clock read by new Date()
  last,       \* the exchange just answered: request, response, the store before it
  reqs,       \* concurrent scenario: the requests submitted together
  pc,         \* concurrent scenario: each request's handler position
  cur,        \* concurrent scenario: what each handler's readBoard() returned
  start,      \* concurrent scenario: the store when the requests were submitted
  order       \* concurrent scenario: the requests in the order they were answered

vars == <<dataFile, files, now, last, reqs, pc, cur, start, order>>

-----------------------------------------------------------------------------
(* Bounds of the model *)

MaxImages == 2      \* longest moodImages sequence a client sends
MaxTime == 1        \* the clock runs over 0..MaxTime
MaxUploads == 1     \* most files kept in the upload directory
MaxReqs == 2        \* most requests submitted concurrently

-----------------------------------------------------------------------------
(* JavaScript values, as far as the handlers inspect them.  Every value is *)
(* a record of one shape: t is the tag, o the key/value pairs of an object,*)
(* a the elements of an array of filenames, s the path segments of a       *)
(* string (a filename split at "/").                                       *)

JsUndefined == [t |-> "undefined", o |-> {}, a |-> <<>>, s |-> <<>>]
JsNull == [t |-> "null", o |-> {}, a |-> <<>>, s |-> <<>>]
JsNumber == [t |-> "number", o |-> {}, a |-> <<>>, s |-> <<>>]
JsObject(o) == [t |-> "object", o |-> o, a |-> <<>>, s |-> <<>>]
JsArray(a) == [t |-> "array", o |-> {}, a |-> a, s |-> <<>>]
JsString(s) == [t |-> "string", o |-> {}, a |-> <<>>, s |-> s]

\* typeof v: arrays and null are "object" too
TypeOf(v) == IF v.t \in {"object", "array", "null"} THEN "object" ELSE v.t

\* v used as a condition (JsNumber stands for a non-zero number)
Truthy(v) == /\ v.t \notin {"undefined", "null"}
             /\ ~(v.t = "string" /\ v.s = <<>>)

IsArray(v) == v.t = "array"

-----------------------------------------------------------------------------
(* Paths *)

AppDir == <<"app">>
PUBLIC_DIR == <<"app", "public">>
DATA_DIR == <<"app", "data">>
UPLOAD_DIR == <<"app", "uploads">>
DATA_FILE == <<"app", "data", "vision-board.txt">>
ServerJs == <<"app", "server.js">>      \* the program's own source file

Dirs == {<<>>, AppDir, PUBLIC_DIR, DATA_DIR, UPLOAD_DIR}

RECURSIVE Normalize(_, _)
\* path.join's normalisation: "." is dropped, ".." removes the segment before it
Normalize(done, rest) ==
  IF rest = <<>> THEN done
  ELSE LET h == Head(rest) IN
       IF h = "." THEN Normalize(done, Tail(rest))
       ELSE IF h = ".."
         THEN Normalize(IF done = <<>> THEN done ELSE SubSeq(done, 1, Len(done) - 1),
                        Tail(rest))
         ELSE Normalize(Append(done, h), Tail(rest))

PathJoin(dir, name) == Normalize(<<>>, dir \o name)

InDir(dir, p) == Len(p) > Len(dir) /\ SubSeq(p, 1, Len(dir)) = dir

\* fs.existsSync
ExistsSync(p, df, fl) ==
  \/ p \in Dirs
  \/ p \in fl
  \/ p = DATA_FILE /\ df.st # "missing"

-----------------------------------------------------------------------------
(* Document store *)

Doc(version, updatedAt, content, moodImages) ==
  [version |-> version, updatedAt |-> updatedAt,
   content |-> content, moodImages |-> moodImages]

NoDoc == Doc(0, 0, JsUndefined, JsUndefined)

FileMissing == [st |-> "missing", doc |-> NoDoc]
FileEmpty == [st |-> "empty", doc |-> NoDoc]       \* nothing but whitespace
FileCorrupt == [st |-> "corrupt", doc |-> NoDoc]   \* text that is no JSON

\* JSON.stringify of one property: a property whose value is undefined is
\* left out, which reads back as undefined; JSON-born values are kept
StringifyValue(v) == IF v.t = "undefined" THEN JsUndefined ELSE v

JsonStringify(d) ==
  [st |-> "json",
   doc |-> Doc(d.version, d.updatedAt,
               StringifyValue(d.content), StringifyValue(d.moodImages))]

Null == [ok |-> FALSE, doc |-> NoDoc]

readBoard(df) ==
  IF df.st = "missing" THEN Null
  ELSE IF df.st = "empty" THEN Null
  ELSE IF df.st = "corrupt" THEN Null      \* JSON.parse throws, caught
  ELSE [ok |-> TRUE, doc |-> df.doc]

writeBoard(data) == JsonStringify(data)

DefaultContent ==
  {<<"subtitle", "Click the text to edit. Upload images in Mood & Aesthetic.">>,
   <<"intentionsTitle", "Intentions">>,
   <<"intentionsTag", "Focus">>,
   <<"intentionsItems", "Choose clarity over chaos. / ...">>,
   <<"quoteMain", "Warm heart, clear mind, steady steps.">>,
   <<"quoteSub", "My energy for 2026">>,
   <<"habitsTitle", "Habits">>,
   <<"habitsTag", "Daily">>,
   <<"habitsItems", "30 minutes deep work before scrolling. / ...">>,
   <<"moodTitle", "Mood & Aesthetic">>,
   <<"moodTag", "Playful + Warm">>,
   <<"moodHint", "No crop: images keep their full height. This panel scrolls.">>,
   <<"goalsTitle", "Goals">>,
   <<"goalsTag", "Milestones">>,
   <<"goalsItems", "One project shipped that I truly care about. / ...">>,
   <<"peopleTitle", "People & Places">>,
   <<"peopleTag", "Connection">>,
   <<"peopleItems", "Make space for friendships that feel easy. / ...">>,
   <<"footerTip", "Tip: click text to edit. Mood images show fully (no cropping).">>}

defaultBoard(t) == Doc(1, t, JsObject(DefaultContent), JsArray(<<>>))

\* readBoard() || defaultBoard()
BoardOrDefault(df, t) ==
  LET r == readBoard(df) IN IF r.ok THEN r.doc ELSE defaultBoard(t)

-----------------------------------------------------------------------------
(* Upload naming *)

\* String.prototype.toLowerCase on the extensions the model uploads
ToLowerCase(ext) ==
  CASE ext = ".PNG" -> ".png"
    [] ext = ".Gif" -> ".gif"
    [] OTHER -> ext

AllowedExt == {".png", ".jpg", ".jpeg", ".webp", ".gif"}

\* originalExt is path.extname(originalName || "")
safeExt(originalExt) ==
  LET ext == ToLowerCase(originalExt) IN
  IF ext \in AllowedExt THEN ext ELSE ".jpg"

\* ts is the clock as the 14 digits, rand the 4-digit draw
genMoodFilename(originalExt, ts, rand) ==
  "mood_" \o ToString(ts) \o "_" \o ToString(rand) \o safeExt(originalExt)

\* the files a client uploads: the extension of the original name, and the
\* draw Math.random() gives that file's name
UploadInputs == {[ext |-> ".PNG", rand |-> 1000], [ext |-> ".bmp", rand |-> 9999]}

-----------------------------------------------------------------------------
(* Requests *)

\* what req.body holds once express.json() has run: k is "none" (no JSON
\* body: req.body is undefined), "primitive" (a JSON literal that is no object
\* or array), "array" or "object"; the other fields are the properties the
\* handlers read, upl the files of a multipart upload
Body(k, content, moodImages, filename, upl) ==
  [k |-> k, content |-> content, moodImages |-> moodImages,
   filename |-> filename, upl |-> upl]

NoBody == Body("none", JsUndefined, JsUndefined, JsUndefined, <<>>)
PrimitiveBody == Body("primitive", JsUndefined, JsUndefined, JsUndefined, <<>>)
ArrayBody == Body("array", JsUndefined, JsUndefined, JsUndefined, <<>>)

\* filenames a client names: two that uploads generate, and paths
F1 == <<genMoodFilename(".PNG", 0, 1000)>>
F2 == <<genMoodFilename(".bmp", 0, 9999)>>
ImageNames == {F1, F2}
DotName == <<".">>
DocTraversal == <<"..", "data", "vision-board.txt">>
SrcTraversal == <<"..", "server.js">>
Absent == <<"nothing.png">>
DeleteNames == ImageNames \cup {DotName, DocTraversal, SrcTraversal, Absent}

SeqsUpTo(S, n) == UNION {[1..k -> S] : k \in 0..n}

ContentA == {<<"a", "1">>}
ContentB == {<<"subtitle", "Mine">>, <<"b", "2">>}

ContentInputs == {JsUndefined, JsNull, JsNumber, JsObject(ContentA)}

MoodInputs ==
  {JsUndefined, JsString(F1)} \cup {JsArray(a) : a \in SeqsUpTo(ImageNames, MaxImages)}

BoardBodies ==
  {NoBody, PrimitiveBody, ArrayBody} \cup
  {Body("object", c, m, JsUndefined, <<>>) : c \in ContentInputs, m \in MoodInputs}

DeleteBodies ==
  {NoBody, PrimitiveBody, ArrayBody} \cup
  {Body("object", JsUndefined, JsUndefined, f, <<>>) :
     f \in {JsUndefined, JsNumber, JsString(<<>>)} \cup {JsString(n) : n \in DeleteNames}}

\* express.json() in its default strict mode answers 400 itself for a JSON
\* literal that is neither an object nor an array
JsonMiddlewareRejects(body) == body.k = "primitive"

\* req.body || {}
BodyOrEmpty(body) ==
  IF body.k = "none" THEN Body("object", JsUndefined, JsUndefined, JsUndefined, <<>>)
  ELSE body

\* typeof of the body itself
TypeOfBody(body) == IF body.k \in {"object", "array"} THEN "object" ELSE "number"

-----------------------------------------------------------------------------
(* Handlers, as functions of the store *)

Result(status, df, fl, out, saved) ==
  [status |-> status, df |-> df, fl |-> fl, out |-> out, saved |-> saved]

\* variant: GET persists the default it substitutes
GetBoardPersisting(df, fl, t) ==
  Result(200, IF readBoard(df).ok THEN df ELSE writeBoard(defaultBoard(t)),
         fl, BoardOrDefault(df, t), <<>>)

\* GET /api/board
GetBoardHandler(df, fl, t) == Result(200, df, fl, BoardOrDefault(df, t), <<>>)

\* variant: an absent content falls back to the default, not to current
PostBoardContentFromDefault(body, current) ==
  IF Truthy(body.content) /\ TypeOf(body.content) = "object"
  THEN body.content ELSE JsObject(DefaultContent)

\* variant: the body's content is merged over current's keys (Object.assign)
PostBoardContentMerged(body, current) ==
  IF Truthy(body.content) /\ TypeOf(body.content) = "object"
  THEN JsObject({kv \in current.content.o : \A n \in body.content.o : n[1] # kv[1]}
                \cup body.content.o)
  ELSE current.content

\* variant: a stored content that is not the default is never overwritten
PostBoardContentFirstWins(body, current) ==
  IF Truthy(body.content) /\ TypeOf(body.content) = "object"
     /\ current.content = JsObject(DefaultContent)
  THEN body.content ELSE current.content

PostBoardContent(body, current) ==
  IF Truthy(body.content) /\ TypeOf(body.content) = "object"
  THEN body.content ELSE current.content

PostBoardMoodImages(body, current) ==
  IF IsArray(body.moodImages) THEN body.moodImages ELSE current.moodImages

\* the document POST /api/board builds from the body and what it read
PostBoardNext(body, current, t) ==
  Doc(1, t, PostBoardContent(body, current), PostBoardMoodImages(body, current))

PostBoardInvalid(raw) ==
  \/ JsonMiddlewareRejects(raw)
  \/ TypeOfBody(BodyOrEmpty(raw)) # "object"

\* POST /api/board
PostBoardHandler(raw, df, fl, t) ==
  IF PostBoardInvalid(raw) THEN Result(400, df, fl, NoDoc, <<>>)
  ELSE Result(200, writeBoard(PostBoardNext(BodyOrEmpty(raw), BoardOrDefault(df, t), t)),
              fl, NoDoc, <<>>)

RECURSIVE AppendAll(_, _)
AppendAll(a, b) == IF b = <<>> THEN a ELSE AppendAll(Append(a, Head(b)), Tail(b))

\* the files POST /api/upload-mood saves: one generated name per file
UploadNames(ups, t) ==
  [i \in 1..Len(ups) |-> <<genMoodFilename(ups[i].ext, t, ups[i].rand)>>]

\* variant: the upload also lists the saved names in the stored document
UploadMoodAndRecord(ups, df, fl, t) ==
  LET names == UploadNames(ups, t)
      board == readBoard(df)
  IN  Result(200,
             IF board.ok /\ IsArray(board.doc.moodImages)
             THEN writeBoard([board.doc EXCEPT
                    !.moodImages = JsArray(AppendAll(board.doc.moodImages.a, names))])
             ELSE df,
             fl \cup {PathJoin(UPLOAD_DIR, names[i]) : i \in 1..Len(names)},
             NoDoc, names)

\* POST /api/upload-mood
UploadMoodHandler(ups, df, fl, t) ==
  LET names == UploadNames(ups, t) IN
  Result(200, df,
         fl \cup {PathJoin(UPLOAD_DIR, names[i]) : i \in 1..Len(names)},
         NoDoc, names)

DeleteMoodInvalid(raw) ==
  \/ JsonMiddlewareRejects(raw)
  \/ ~Truthy(BodyOrEmpty(raw).filename)
  \/ TypeOf(BodyOrEmpty(raw).filename) # "string"

\* path.join(UPLOAD_DIR, filename)
DeleteTarget(filename) == PathJoin(UPLOAD_DIR, filename.s)

\* fs.unlinkSync throws on a directory
UnlinkThrows(full) == full \in Dirs

\* if (fs.existsSync(full)) fs.unlinkSync(full), when it does not throw
UnlinkData(full, df) == IF full = DATA_FILE THEN FileMissing ELSE df

UnlinkFiles(full, fl) == fl \ {full}

RECURSIVE FilterOutFirst(_, _)
\* variant: only the first occurrence is removed (indexOf and splice)
FilterOutFirst(a, name) ==
  IF a = <<>> THEN <<>>
  ELSE IF Head(a) = name THEN Tail(a)
  ELSE <<Head(a)>> \o FilterOutFirst(Tail(a), name)

\* board.moodImages.filter((x) => x !== filename)
FilterOut(a, name) == SelectSeq(a, LAMBDA x : x # name)

\* the rest of POST /api/delete-mood, from what readBoard() returned
DeleteMoodWrite(board, filename, df, t) ==
  IF board.ok /\ IsArray(board.doc.moodImages)
  THEN writeBoard([board.doc EXCEPT
                     !.moodImages = JsArray(FilterOut(board.doc.moodImages.a, filename.s)),
                     !.updatedAt = t])
  ELSE df

\* POST /api/delete-mood
DeleteMoodHandler(raw, df, fl, t) ==
  IF DeleteMoodInvalid(raw) THEN Result(400, df, fl, NoDoc, <<>>)
  ELSE LET filename == BodyOrEmpty(raw).filename
           full == DeleteTarget(filename)
       IN  IF ExistsSync(full, df, fl) /\ UnlinkThrows(full)
           THEN Result(500, df, fl, NoDoc, <<>>)
           ELSE LET df1 == UnlinkData(full, df) IN
                Result(200, DeleteMoodWrite(readBoard(df1), filename, df1, t),
                       UnlinkFiles(full, fl), NoDoc, <<>>)

-----------------------------------------------------------------------------
(* One request at a time *)

Last(op, body, r) ==
  [op |-> op, body |-> body, status |-> r.status, out |-> r.out, saved |-> r.saved,
   preData |-> dataFile, preFiles |-> files]

NoLast ==
  [op |-> "none", body |-> NoBody, status |-> 0, out |-> NoDoc, saved |-> <<>>,
   preData |-> FileMissing, preFiles |-> {}]

NoStart == [df |-> FileMissing, fl |-> {}]

Uploads(fl) == {p \in fl : InDir(UPLOAD_DIR, p)}

\* a handler runs from the idle server and leaves its exchange in last
Handled(op, body, r) ==
  /\ last = NoLast
  /\ dataFile' = r.df
  /\ files' = r.fl
  /\ last' = Last(op, body, r)
  /\ UNCHANGED <<now, reqs, pc, cur, start, order>>

Init ==
  /\ dataFile \in {FileMissing, FileEmpty, FileCorrupt}
  /\ files = {ServerJs}
  /\ now = 0
  /\ last = NoLast
  /\ reqs = <<>>
  /\ pc = <<>>
  /\ cur = <<>>
  /\ start = NoStart
  /\ order = <<>>

Tick ==
  /\ last = NoLast
  /\ now < MaxTime
  /\ now' = now + 1
  /\ UNCHANGED <<dataFile, files, last, reqs, pc, cur, start, order>>

GetBoard == Handled("get", NoBody, GetBoardHandler(dataFile, files, now))

PostBoard ==
  \E body \in BoardBodies :
    Handled("postBoard", body, PostBoardHandler(body, dataFile, files, now))

UploadMood ==
  \E ups \in SeqsUpTo(UploadInputs, MaxUploads) :
    LET r == UploadMoodHandler(ups, dataFile, files, now) IN
    /\ Cardinality(Uploads(r.fl)) <= MaxUploads
    /\ Handled("upload", Body("multipart", JsUndefined, JsUndefined, JsUndefined, ups), r)

DeleteMood ==
  \E body \in DeleteBodies :
    Handled("delete", body, DeleteMoodHandler(body, dataFile, files, now))

\* the response has gone out (res.json): the exchange is over
Settle ==
  /\ last # NoLast
  /\ last' = NoLast
  /\ UNCHANGED <<dataFile, files, now, reqs, pc, cur, start, order>>

Next == Tick \/ GetBoard \/ PostBoard \/ UploadMood \/ DeleteMood \/ Settle

Spec == Init /\ [][Next]_vars

-----------------------------------------------------------------------------
(* Requests submitted together.  express.json() reads each body            *)
(* asynchronously, so the handlers of requests in flight start in any      *)
(* order; a handler itself calls only fs.readFileSync, fs.writeFileSync,   *)
(* fs.existsSync and fs.unlinkSync and never awaits.                       *)

Req(op, body) == [op |-> op, body |-> body]

ObjectBody(content, moodImages) ==
  Body("object", content, moodImages, JsUndefined, <<>>)

FilenameBody(name) ==
  Body("object", JsUndefined, JsUndefined, JsString(name), <<>>)

ConcRequests ==
  {Req("postBoard", ObjectBody(JsObject(ContentA), JsUndefined)),
   Req("postBoard", ObjectBody(JsObject(ContentB), JsUndefined)),
   Req("postBoard", ObjectBody(JsUndefined, JsArray(<<F2>>))),
   Req("postBoard", ObjectBody(JsObject(ContentA), JsArray(<<F1, F1>>))),
   Req("postBoard", ObjectBody(JsUndefined, JsUndefined)),
   Req("postBoard", PrimitiveBody),
   Req("delete", FilenameBody(F1)),
   Req("delete", FilenameBody(DocTraversal)),
   Req("delete", FilenameBody(DotName)),
   Req("delete", NoBody)}

StoredBoard == writeBoard(Doc(1, 0, JsObject(ContentB), JsArray(<<F1, F2, F1>>)))

\* variant: the handlers read the file with an awaited, asynchronous call
HandlerYieldsAsync == TRUE

\* whether a handler gives control back to the event loop between its
\* readBoard() and its writeBoard(): it does not, every call is synchronous
HandlerYields == FALSE

EventLoopFree == HandlerYields \/ \A j \in DOMAIN pc : pc[j] # "read"

InitConc ==
  /\ dataFile \in {FileMissing, StoredBoard}
  /\ files = {ServerJs, PathJoin(UPLOAD_DIR, F1)}
  /\ now = 0
  /\ last = NoLast
  /\ reqs \in SeqsUpTo(ConcRequests, MaxReqs) \ {<<>>}
  /\ pc = [i \in DOMAIN reqs |-> "pending"]
  /\ cur = [i \in DOMAIN reqs |-> Null]
  /\ start = [df |-> dataFile, fl |-> files]
  /\ order = <<>>

\* the handler of request i ends with status st
Answer(i, st) ==
  /\ pc' = [pc EXCEPT ![i] = st]
  /\ order' = Append(order, i)

\* POST /api/board up to and including readBoard() || defaultBoard()
BeginPost(i) ==
  /\ pc[i] = "pending"
  /\ reqs[i].op = "postBoard"
  /\ EventLoopFree
  /\ IF PostBoardInvalid(reqs[i].body)
     THEN Answer(i, "400") /\ UNCHANGED cur
     ELSE /\ cur' = [cur EXCEPT ![i] = [ok |-> TRUE, doc |-> BoardOrDefault(dataFile, now)]]
          /\ pc' = [pc EXCEPT ![i] = "read"]
          /\ UNCHANGED order
  /\ UNCHANGED <<dataFile, files, now, last, reqs, start>>

\* POST /api/board from building next to res.json
FinishPost(i) ==
  /\ pc[i] = "read"
  /\ reqs[i].op = "postBoard"
  /\ dataFile' = writeBoard(PostBoardNext(BodyOrEmpty(reqs[i].body), cur[i].doc, now))
  /\ Answer(i, "200")
  /\ UNCHANGED <<files, now, last, reqs, cur, start>>

\* POST /api/delete-mood up to and including readBoard()
BeginDelete(i) ==
  /\ pc[i] = "pending"
  /\ reqs[i].op = "delete"
  /\ EventLoopFree
  /\ IF DeleteMoodInvalid(reqs[i].body)
     THEN Answer(i, "400") /\ UNCHANGED <<dataFile, files, cur>>
     ELSE LET full == DeleteTarget(BodyOrEmpty(reqs[i].body).filename) IN
          IF ExistsSync(full, dataFile, files) /\ UnlinkThrows(full)
          THEN Answer(i, "500") /\ UNCHANGED <<dataFile, files, cur>>
          ELSE /\ dataFile' = UnlinkData(full, dataFile)
               /\ files' = UnlinkFiles(full, files)
               /\ cur' = [cur EXCEPT ![i] = readBoard(UnlinkData(full, dataFile))]
               /\ pc' = [pc EXCEPT ![i] = "read"]
               /\ UNCHANGED order
  /\ UNCHANGED <<now, last, reqs, start>>

\* POST /api/delete-mood from the filter to res.json
FinishDelete(i) ==
  /\ pc[i] = "read"
  /\ reqs[i].op = "delete"
  /\ dataFile' = DeleteMoodWrite(cur[i], BodyOrEmpty(reqs[i].body).filename, dataFile, now)
  /\ Answer(i, "200")
  /\ UNCHANGED <<files, now, last, reqs, cur, start>>

NextConc ==
  \/ \E i \in DOMAIN reqs : BeginPost(i)
  \/ \E i \in DOMAIN reqs : FinishPost(i)
  \/ \E i \in DOMAIN reqs : BeginDelete(i)
  \/ \E i \in DOMAIN reqs : FinishDelete(i)

SpecConc == InitConc /\ [][NextConc]_vars

AllAnswered == \A i \in DOMAIN pc : pc[i] \in {"200", "400", "500"}

\* the requests handled one after another, each handler whole
RunOne(req, st) ==
  LET r == IF req.op = "postBoard"
           THEN PostBoardHandler(req.body, st.df, st.fl, now)
           ELSE DeleteMoodHandler(req.body, st.df, st.fl, now)
  IN  [df |-> r.df, fl |-> r.fl]

RECURSIVE SerialRun(_, _)
SerialRun(st, is) ==
  IF is = <<>> THEN st ELSE SerialRun(RunOne(reqs[Head(is)], st), Tail(is))

Orders == {p \in [DOMAIN reqs -> DOMAIN reqs] : \A i, j \in DOMAIN reqs : p[i] = p[j] => i = j}

StoredView(df) ==
  [st |-> df.st, content |-> df.doc.content, moodImages |-> df.doc.moodImages]

-----------------------------------------------------------------------------
(* Properties of one exchange (specification Spec) *)

Range(a) == {a[i] : i \in DOMAIN a}

RECURSIVE Without(_, _)
\* a with every occurrence of x left out, the rest in order
Without(a, x) ==
  IF a = <<>> THEN <<>>
  ELSE IF Head(a) = x THEN Without(Tail(a), x)
  ELSE <<Head(a)>> \o Without(Tail(a), x)

\* the document before the exchange, and what a GET returns after it
PreBoard == readBoard(last.preData)
PreSeen == BoardOrDefault(last.preData, now)
Seen == BoardOrDefault(dataFile, now)

EmptyObjectBody == ObjectBody(JsUndefined, JsUndefined)

DeleteAsked ==
  /\ last.op = "delete"
  /\ last.body.k = "object"
  /\ last.body.filename.t = "string"
  /\ last.body.filename.s # <<>>

AskedName == last.body.filename.s
AskedPath == PathJoin(UPLOAD_DIR, AskedName)

WasUploadedFile == AskedPath \in last.preFiles /\ InDir(UPLOAD_DIR, AskedPath)

WasListed ==
  /\ PreBoard.ok
  /\ IsArray(PreBoard.doc.moodImages)
  /\ AskedName \in Range(PreBoard.doc.moodImages.a)

\* C1: POST /api/board with a body that is no object (a number, an array)
\* answers 400 and leaves the document file exactly as it was.
C1_NonObjectBodyRejected ==
  (last.op = "postBoard" /\ last.body.k \in {"primitive", "array"})
    => (last.status = 400 /\ dataFile = last.preData)

\* C2: deleting a filename that is listed in moodImages and is a file of the
\* upload directory answers 200, removes the file, removes every occurrence
\* of the name from the moodImages a later GET returns, keeps the other
\* entries in order and keeps content.
C2_DeleteRemovesFileAndEntries ==
  (DeleteAsked /\ WasListed /\ WasUploadedFile)
    => /\ last.status = 200
       /\ AskedPath \notin files
       /\ IsArray(Seen.moodImages)
       /\ AskedName \notin Range(Seen.moodImages.a)
       /\ Seen.moodImages.a = Without(PreBoard.doc.moodImages.a, AskedName)
       /\ Seen.content = PreBoard.doc.content

C2_Witness ==
  /\ DeleteAsked /\ WasListed /\ WasUploadedFile
  /\ Len(PreBoard.doc.moodImages.a) = 2
  /\ Len(Seen.moodImages.a) = 1
  /\ last.status = 200

\* C3: deleting a filename that is neither a file of the upload directory nor
\* an entry of moodImages answers 200 and leaves the document as it was; with
\* no document stored, none is created.
C3_AbsentNameLeavesDocument ==
  (DeleteAsked /\ ~WasUploadedFile /\ ~WasListed)
    => /\ last.status = 200
       /\ readBoard(dataFile) = PreBoard
       /\ (last.preData.st = "missing" => dataFile.st = "missing")

\* C4: POST /api/board with body {} keeps the content and the moodImages of
\* the document stored before it, whatever that document is.
C4_EmptyBodyKeepsFields ==
  (last.op = "postBoard" /\ last.body = EmptyObjectBody /\ PreBoard.ok)
    => /\ last.status = 200
       /\ readBoard(dataFile).ok
       /\ readBoard(dataFile).doc.content = PreBoard.doc.content
       /\ readBoard(dataFile).doc.moodImages = PreBoard.doc.moodImages

C4_Witness ==
  /\ last.op = "postBoard" /\ last.body = EmptyObjectBody /\ PreBoard.ok
  /\ PreBoard.doc.content = JsObject(ContentA)
  /\ PreBoard.doc.moodImages = JsArray(<<F2, F1>>)
  /\ PreBoard.doc.updatedAt < readBoard(dataFile).doc.updatedAt

\* C5: POST /api/board with a body whose content is an object stores exactly
\* that object as content, so no key of the previous content survives unless
\* the body carries it; moodImages keeps its previous value when the body has
\* no moodImages sequence.
C5_ContentReplacedWhole ==
  (last.op = "postBoard" /\ last.body.k = "object" /\ last.body.content.t = "object")
    => /\ last.status = 200
       /\ readBoard(dataFile).ok
       /\ readBoard(dataFile).doc.content = last.body.content
       /\ \A kv \in PreSeen.content.o :
            kv \in readBoard(dataFile).doc.content.o => kv \in last.body.content.o
       /\ (~IsArray(last.body.moodImages)
             => readBoard(dataFile).doc.moodImages = PreSeen.moodImages)

C5_Witness ==
  /\ last.op = "postBoard" /\ last.body.k = "object"
  /\ last.body.content = JsObject(ContentA)
  /\ ~IsArray(last.body.moodImages)
  /\ PreBoard.ok
  /\ PreBoard.doc.content = JsObject(DefaultContent)
  /\ PreBoard.doc.moodImages = JsArray(<<F1>>)
  /\ readBoard(dataFile).doc.moodImages = JsArray(<<F1>>)

\* C6: GET /api/board answers 200 and changes nothing on disk; with the
\* document file missing, empty or unparsable it returns the default content
\* and an empty moodImages, otherwise the stored document; and the document
\* file comes into existence only through POST /api/board.
C6_GetReadsOnly ==
  /\ last.op = "get"
       => /\ last.status = 200
          /\ dataFile = last.preData
          /\ files = last.preFiles
          /\ IF last.preData.st \in {"missing", "empty", "corrupt"}
             THEN /\ last.out.content = JsObject(DefaultContent)
                  /\ last.out.moodImages = JsArray(<<>>)
             ELSE last.out = last.preData.doc
  /\ (last.op # "none" /\ last.preData.st = "missing" /\ dataFile.st # "missing")
       => last.op = "postBoard"

C6_Witness ==
  /\ last.op = "get"
  /\ last.preData.st = "corrupt"
  /\ dataFile.st = "corrupt"
  /\ last.out.content = JsObject(DefaultContent)

\* C7: POST /api/upload-mood answers 200 with one saved name per file (none
\* for no files), only adds files, all in the upload directory, and leaves
\* the document file as it was; a name enters the stored moodImages only
\* through a POST /api/board whose body lists it.
C7_UploadLeavesDocument ==
  /\ last.op = "upload"
       => /\ last.status = 200
          /\ Len(last.saved) = Len(last.body.upl)
          /\ dataFile = last.preData
          /\ last.preFiles \subseteq files
          /\ \A p \in files \ last.preFiles : InDir(UPLOAD_DIR, p)
          /\ \A n \in Range(last.saved) : PathJoin(UPLOAD_DIR, n) \in files
  /\ last.op # "none"
       => \A n \in Range(readBoard(dataFile).doc.moodImages.a)
                      \ Range(PreBoard.doc.moodImages.a) :
            /\ last.op = "postBoard"
            /\ n \in Range(last.body.moodImages.a)

C7_Witness ==
  /\ last.op = "upload"
  /\ Len(last.saved) = 1
  /\ PathJoin(UPLOAD_DIR, last.saved[1]) \notin last.preFiles
  /\ PreBoard.ok
  /\ last.saved[1] \notin Range(readBoard(dataFile).doc.moodImages.a)

\* C9: POST /api/delete-mood removes nothing but files of the upload
\* directory: whatever filename is sent, the document file and every file
\* outside the upload directory are still there afterwards.
C9_DeleteStaysInUploadDir ==
  last.op = "delete"
    => /\ \A p \in last.preFiles \ files : InDir(UPLOAD_DIR, p)
       /\ (last.preData.st # "missing" => dataFile.st # "missing")

-----------------------------------------------------------------------------
(* Properties of requests submitted together (specification SpecConc) *)

IsBoardPost(i) == reqs[i].op = "postBoard" /\ ~PostBoardInvalid(reqs[i].body)

OnlyBoardPosts == \A i \in DOMAIN reqs : IsBoardPost(i)

SentContent(i) == reqs[i].body.content.t = "object"
SentMoodImages(i) == reqs[i].body.moodImages.t = "array"

RECURSIVE ContentAfter(_, _)
\* the content of the latest request of is that sent one, else c
ContentAfter(is, c) ==
  IF is = <<>> THEN c
  ELSE ContentAfter(Tail(is), IF SentContent(Head(is)) THEN reqs[Head(is)].body.content ELSE c)

RECURSIVE MoodImagesAfter(_, _)
MoodImagesAfter(is, m) ==
  IF is = <<>> THEN m
  ELSE MoodImagesAfter(Tail(is),
                       IF SentMoodImages(Head(is)) THEN reqs[Head(is)].body.moodImages ELSE m)

StartSeen == BoardOrDefault(start.df, now)

\* C8: POST /api/board requests in flight together are all answered 200,
\* whatever the others wrote (no conflict detection), and the later writer
\* wins: each stored field is the one the latest answered request that sent
\* the field sent, so an earlier writer's value for it is gone.
C8_LastWriteWins ==
  (AllAnswered /\ OnlyBoardPosts)
    => /\ \A i \in DOMAIN pc : pc[i] = "200"
       /\ readBoard(dataFile).ok
       /\ readBoard(dataFile).doc.content = ContentAfter(order, StartSeen.content)
       /\ readBoard(dataFile).doc.moodImages = MoodImagesAfter(order, StartSeen.moodImages)

C8_Witness ==
  /\ AllAnswered /\ OnlyBoardPosts
  /\ Len(reqs) = 2
  /\ pc[1] = "200" /\ pc[2] = "200"
  /\ SentContent(order[1])
  /\ readBoard(dataFile).doc.content # reqs[order[1]].body.content

\* the store still holds what the handler of request i read
StillCurrent(i) ==
  IF reqs[i].op = "postBoard"
  THEN cur[i].doc = BoardOrDefault(dataFile, now)
  ELSE cur[i] = readBoard(dataFile)

\* C10: no handler runs between another handler's readBoard and its
\* writeBoard; so once all requests are answered the stored content and
\* moodImages are those some one-after-another order of the requests gives,
\* and a content-only POST and a moodImages-only POST both take effect.
C10_HandlersSerialize ==
  /\ \A i \in DOMAIN pc : pc[i] = "read" => StillCurrent(i)
  /\ Cardinality({i \in DOMAIN pc : pc[i] = "read"}) <= 1
  /\ AllAnswered
       => /\ \E p \in Orders :
               /\ StoredView(SerialRun(start, p).df) = StoredView(dataFile)
               /\ SerialRun(start, p).fl = files
          /\ \A i, j \in DOMAIN reqs :
               (/\ Len(reqs) = 2
                /\ IsBoardPost(i) /\ SentContent(i) /\ ~SentMoodImages(i)
                /\ IsBoardPost(j) /\ SentMoodImages(j) /\ ~SentContent(j))
                 => /\ readBoard(dataFile).doc.content = reqs[i].body.content
                    /\ readBoard(dataFile).doc.moodImages = reqs[j].body.moodImages

C10_Witness ==
  /\ AllAnswered
  /\ Len(reqs) = 2
  /\ reqs[1] = Req("postBoard", ObjectBody(JsObject(ContentA), JsUndefined))
  /\ reqs[2] = Req("postBoard", ObjectBody(JsUndefined, JsArray(<<F2>>)))
  /\ order = <<2, 1>>
  /\ start.df = StoredBoard
  /\ readBoard(dataFile).doc.content = JsObject(ContentA)
  /\ readBoard(dataFile).doc.moodImages = JsArray(<<F2>>)

=============================================================================
